---- MODULE Spec2Model ----
(***************************************************************************)
(* Reflection workflow of src/reflection: a LangGraph state graph          *)
(*   START -> writer_node -> reviewer_node -> {writer_node|publisher_node} *)
(*   publisher_node -> END                                                 *)
(* The workflow state is a Python dict; it is modelled as a function whose *)
(* DOMAIN is the set of keys present, so that state.get(key, default) and  *)
(* {**state, key: value} keep their meaning.  The language model is an     *)
(* external collaborator: every value it returns is an input drawn from a  *)
(* small set.                                                              *)
(***************************************************************************)
EXTENDS Integers, Sequences, FiniteSets, TLC

VARIABLES
    MAX_REVISIONS,  \* config.MAX_REVISIONS, read once at import
    pc,             \* next node the compiled graph will execute
    state,          \* the graph state (MessageResponseState)
    llm_calls,      \* history: every call made on the ChatOpenAI stub
    trace,          \* history: names of the nodes executed so far
    verdicts,       \* history: structured outputs returned to normal reviews
    results         \* unit calls: values returned by should_continue

vars == <<MAX_REVISIONS, pc, state, llm_calls, trace, verdicts, results>>

----------------------------------------------------------------------------
(* Bounds *)

MaxCap == 3
MaxInvocations == 2

(* Inputs *)

CustomerMessages == {"", "Hello!"}
Drafts == {"draft_a", "draft_b"}
Feedbacks == {"", "fb_a", "fb_b"}

----------------------------------------------------------------------------
(* state.py *)

APPROVE == "APPROVE"
REVISE == "REVISE"

WRITER == "writer_node"
REVIEWER == "reviewer_node"
PUBLISHER == "publisher_node"

START == "START"
END == "END"

(* config.py *)

MAX_REVISIONS_MESSAGE == "MAX REVISIONS REACHED - APPROVING CURRENT VERSION"

----------------------------------------------------------------------------
(* Python dict primitives *)

\* d.get(key, default)
Get(d, key, default) == IF key \in DOMAIN d THEN d[key] ELSE default

\* {**d, **upd}
Spread(d, upd) ==
    [k \in (DOMAIN d) \cup (DOMAIN upd) |->
        IF k \in DOMAIN upd THEN upd[k] ELSE d[k]]

\* f"{True}" / f"{False}"
BoolStr(b) == IF b THEN "True" ELSE "False"

\* HumanMessage(content=..., name=...) / AIMessage(...); content is the
\* sequence of the pieces the f-string concatenates; id 0 is id=None, the
\* messages channel gives a message its id when it stores it
HumanMessage(content, name) ==
    [type |-> "human", name |-> name, content |-> content, id |-> 0]
AIMessage(content, name) ==
    [type |-> "ai", name |-> name, content |-> content, id |-> 0]
SystemMessage(content) ==
    [type |-> "system", name |-> "None", content |-> content, id |-> 0]

\* the structured output of AIReviewerResponse: a dict that may lack
\* "decision" or carry a value outside the Literal
ReviewerResponses ==
    { [k \in {"decision"} |-> v] : v \in {APPROVE, REVISE, "MAYBE"} }
        \cup { [k \in {} |-> APPROVE] }

----------------------------------------------------------------------------
(* nodes.py *)

\* feedback is Optional[str]: <<>> is None, <<s>> is the string s
_create_writer_messages(st, feedback) ==
    LET original_message == Get(st, "original_customer_message", "")
        messages == <<SystemMessage(<<"writer_instructions">>)>>
                      \o st["messages"]
                      \o <<HumanMessage(<<"Original Customer Message: ", original_message>>, "None")>>
    IN  IF feedback # <<>> /\ feedback[1] # ""
        THEN messages \o <<HumanMessage(<<"Reviewer Feedback:", feedback[1],
                              "Please revise your response based on this feedback.">>, "None")>>
        ELSE messages

\* variant: the counter advances by two
_update_writer_state_plus2(st, response_content) ==
    LET revision_count == Get(st, "revision_count", 0)
    IN  Spread(st,
          [k \in {"revision_count", "latest_message_response_by_writer", "messages"} |->
             CASE k = "revision_count" -> revision_count + 2
               [] k = "latest_message_response_by_writer" -> response_content
               [] k = "messages" -> <<AIMessage(<<response_content>>, WRITER)>>])

\* variant: the counter is written back without the increment
_update_writer_state_no_increment(st, response_content) ==
    LET revision_count == Get(st, "revision_count", 0)
    IN  Spread(st,
          [k \in {"revision_count", "latest_message_response_by_writer", "messages"} |->
             CASE k = "revision_count" -> revision_count
               [] k = "latest_message_response_by_writer" -> response_content
               [] k = "messages" -> <<AIMessage(<<response_content>>, WRITER)>>])

\* variant: the draft field is not written
_update_writer_state_keeps_draft(st, response_content) ==
    LET revision_count == Get(st, "revision_count", 0)
    IN  Spread(st,
          [k \in {"revision_count", "messages"} |->
             CASE k = "revision_count" -> revision_count + 1
               [] k = "messages" -> <<AIMessage(<<response_content>>, WRITER)>>])

_update_writer_state(st, response_content) ==
    LET revision_count == Get(st, "revision_count", 0)
    IN  Spread(st,
          [k \in {"revision_count", "latest_message_response_by_writer", "messages"} |->
             CASE k = "revision_count" -> revision_count + 1
               [] k = "latest_message_response_by_writer" -> response_content
               [] k = "messages" -> <<AIMessage(<<response_content>>, WRITER)>>])

\* variant: the feedback is taken whenever the decision is REVISE, also on
\* the first call
writer_node_ignores_count(st, response_content) ==
    LET feedback == IF "latest_reviewer_decision" \in DOMAIN st
                       /\ st["latest_reviewer_decision"] = REVISE
                    THEN <<Get(st, "latest_feedback_for_writer", "")>>
                    ELSE <<>>
        messages == _create_writer_messages(st, feedback)
    IN  [ret |-> _update_writer_state(st, response_content),
         calls |-> <<[node |-> WRITER, kind |-> "invoke", messages |-> messages]>>]

\* the value writer_node returns (ret) and the model calls it makes (calls),
\* given the text the model call returns
writer_node(st, response_content) ==
    LET revision_count == Get(st, "revision_count", 0)
        feedback == IF revision_count > 0
                       /\ "latest_reviewer_decision" \in DOMAIN st
                       /\ st["latest_reviewer_decision"] = REVISE
                    THEN <<Get(st, "latest_feedback_for_writer", "")>>
                    ELSE <<>>
        messages == _create_writer_messages(st, feedback)
    IN  [ret |-> _update_writer_state(st, response_content),
         calls |-> <<[node |-> WRITER, kind |-> "invoke", messages |-> messages]>>]

\* variant: the cap test is strict
max_revisions_reached_strict(revision_count) == revision_count > MAX_REVISIONS

\* "Check if max revisions reached"
max_revisions_reached(revision_count) == revision_count >= MAX_REVISIONS

\* variant: the verdict is not consulted
continue_revision_ignores_decision(decision, revision_count) ==
    revision_count < MAX_REVISIONS

\* "Determine if another revision is needed"
continue_revision(decision, revision_count) ==
    decision = REVISE /\ revision_count < MAX_REVISIONS

\* variant: the cap path logs the cap message only
reviewer_node_cap_one_entry(st, feedback_text, reviewer_response) ==
    LET revision_count == Get(st, "revision_count", 0)
    IN  IF max_revisions_reached(revision_count)
        THEN [ret |-> Spread(st,
                [k \in {"continue_revision", "latest_reviewer_decision", "messages"} |->
                   CASE k = "continue_revision" -> FALSE
                     [] k = "latest_reviewer_decision" -> APPROVE
                     [] k = "messages" ->
                          << HumanMessage(<<MAX_REVISIONS_MESSAGE>>, REVIEWER) >>]),
              calls |-> <<>>]
        ELSE
          LET latest_response == Get(st, "latest_message_response_by_writer", "")
              original_message == Get(st, "original_customer_message", "")
              messages == <<SystemMessage(<<"reviewer_instructions">>)>>
                            \o st["messages"]
                            \o <<HumanMessage(<<"Original Customer Message: ", original_message,
                                                "Proposed Response: ", latest_response>>, "None")>>
              decision == Get(reviewer_response, "decision", REVISE)
              continue == continue_revision(decision, revision_count)
          IN  [ret |-> Spread(st,
                [k \in {"latest_feedback_for_writer", "latest_reviewer_decision",
                        "continue_revision", "messages"} |->
                   CASE k = "latest_feedback_for_writer" -> feedback_text
                     [] k = "latest_reviewer_decision" -> decision
                     [] k = "continue_revision" -> continue
                     [] k = "messages" ->
                          << HumanMessage(<<ToString(revision_count), " - feedback for writer: ", feedback_text>>, REVIEWER),
                             HumanMessage(<<ToString(revision_count), " - reviewer decision: ", decision>>, REVIEWER),
                             HumanMessage(<<ToString(revision_count), " - continue revision?: ", BoolStr(continue)>>, REVIEWER) >>]),
               calls |-> << [node |-> REVIEWER, kind |-> "invoke", messages |-> messages],
                            [node |-> REVIEWER, kind |-> "structured",
                             messages |-> <<HumanMessage(<<"Here is the feedback: ", feedback_text>>, "None")>>] >>]

\* variant: the normal path does not store the feedback text
reviewer_node_stale_feedback(st, feedback_text, reviewer_response) ==
    LET revision_count == Get(st, "revision_count", 0)
    IN  IF max_revisions_reached(revision_count)
        THEN [ret |-> Spread(st,
                [k \in {"continue_revision", "latest_reviewer_decision", "messages"} |->
                   CASE k = "continue_revision" -> FALSE
                     [] k = "latest_reviewer_decision" -> APPROVE
                     [] k = "messages" ->
                          << HumanMessage(<<MAX_REVISIONS_MESSAGE>>, REVIEWER),
                             HumanMessage(<<ToString(revision_count), " reviewer decision: ", APPROVE>>, REVIEWER),
                             HumanMessage(<<ToString(revision_count), " continue revision?: ", BoolStr(FALSE)>>, REVIEWER) >>]),
              calls |-> <<>>]
        ELSE
          LET latest_response == Get(st, "latest_message_response_by_writer", "")
              original_message == Get(st, "original_customer_message", "")
              messages == <<SystemMessage(<<"reviewer_instructions">>)>>
                            \o st["messages"]
                            \o <<HumanMessage(<<"Original Customer Message: ", original_message,
                                                "Proposed Response: ", latest_response>>, "None")>>
              decision == Get(reviewer_response, "decision", REVISE)
              continue == continue_revision(decision, revision_count)
          IN  [ret |-> Spread(st,
                [k \in {"latest_reviewer_decision", "continue_revision", "messages"} |->
                   CASE k = "latest_reviewer_decision" -> decision
                     [] k = "continue_revision" -> continue
                     [] k = "messages" ->
                          << HumanMessage(<<ToString(revision_count), " - feedback for writer: ", feedback_text>>, REVIEWER),
                             HumanMessage(<<ToString(revision_count), " - reviewer decision: ", decision>>, REVIEWER),
                             HumanMessage(<<ToString(revision_count), " - continue revision?: ", BoolStr(continue)>>, REVIEWER) >>]),
               calls |-> << [node |-> REVIEWER, kind |-> "invoke", messages |-> messages],
                            [node |-> REVIEWER, kind |-> "structured",
                             messages |-> <<HumanMessage(<<"Here is the feedback: ", feedback_text>>, "None")>>] >>]

\* the value reviewer_node returns (ret) and the model calls it makes
\* (calls), given what the two model calls would return
reviewer_node(st, feedback_text, reviewer_response) ==
    LET revision_count == Get(st, "revision_count", 0)
    IN  IF max_revisions_reached(revision_count)
        THEN [ret |-> Spread(st,
                [k \in {"continue_revision", "latest_reviewer_decision", "messages"} |->
                   CASE k = "continue_revision" -> FALSE
                     [] k = "latest_reviewer_decision" -> APPROVE
                     [] k = "messages" ->
                          << HumanMessage(<<MAX_REVISIONS_MESSAGE>>, REVIEWER),
                             HumanMessage(<<ToString(revision_count), " reviewer decision: ", APPROVE>>, REVIEWER),
                             HumanMessage(<<ToString(revision_count), " continue revision?: ", BoolStr(FALSE)>>, REVIEWER) >>]),
              calls |-> <<>>]
        ELSE
          LET latest_response == Get(st, "latest_message_response_by_writer", "")
              original_message == Get(st, "original_customer_message", "")
              messages == <<SystemMessage(<<"reviewer_instructions">>)>>
                            \o st["messages"]
                            \o <<HumanMessage(<<"Original Customer Message: ", original_message,
                                                "Proposed Response: ", latest_response>>, "None")>>
              decision == Get(reviewer_response, "decision", REVISE)
              continue == continue_revision(decision, revision_count)
          IN  [ret |-> Spread(st,
                [k \in {"latest_feedback_for_writer", "latest_reviewer_decision",
                        "continue_revision", "messages"} |->
                   CASE k = "latest_feedback_for_writer" -> feedback_text
                     [] k = "latest_reviewer_decision" -> decision
                     [] k = "continue_revision" -> continue
                     [] k = "messages" ->
                          << HumanMessage(<<ToString(revision_count), " - feedback for writer: ", feedback_text>>, REVIEWER),
                             HumanMessage(<<ToString(revision_count), " - reviewer decision: ", decision>>, REVIEWER),
                             HumanMessage(<<ToString(revision_count), " - continue revision?: ", BoolStr(continue)>>, REVIEWER) >>]),
               calls |-> << [node |-> REVIEWER, kind |-> "invoke", messages |-> messages],
                            [node |-> REVIEWER, kind |-> "structured",
                             messages |-> <<HumanMessage(<<"Here is the feedback: ", feedback_text>>, "None")>>] >>]

\* variant: the publisher adds an entry of its own to the log
publisher_node_logs(st) ==
    Spread(st, [k \in {"messages"} |->
                  <<HumanMessage(<<"Final response ready to publish!">>, PUBLISHER)>>])

publisher_node(st) == Spread(st, [k \in {} |-> 0])

\* variant: the error of the model call is swallowed and an empty draft kept
writer_node_swallows(st) ==
    [ret |-> _update_writer_state(st, ""),
     calls |-> writer_node(st, "").calls]

\* writer_node when llm.invoke raises: the call was made, the return
\* statement is never reached, so the node hands back no update
writer_node_raises(st) ==
    [ret |-> [k \in {} |-> 0],
     calls |-> writer_node(st, "").calls]

\* reviewer_node when a model call raises on the normal path: in llm.invoke
\* (stage "invoke") or in the structured-output call (stage "structured",
\* after llm.invoke returned feedback_text); no update is handed back
reviewer_node_raises(st, stage, feedback_text) ==
    LET calls == reviewer_node(st, feedback_text, [k \in {} |-> 0]).calls
    IN  [ret |-> [k \in {} |-> 0],
         calls |-> IF stage = "invoke" THEN SubSeq(calls, 1, 1) ELSE calls]

----------------------------------------------------------------------------
(* graph_simple.py *)

\* variant: the publisher branch returns a name the edge map does not know
should_continue_unmapped(st) ==
    IF Get(st, "continue_revision", FALSE) THEN WRITER ELSE "publisher"

\* variant: a missing flag means "continue"
should_continue_default_true(st) ==
    IF Get(st, "continue_revision", TRUE) THEN WRITER ELSE PUBLISHER

\* variant: the two branches are swapped
should_continue_swapped(st) ==
    IF Get(st, "continue_revision", FALSE) THEN PUBLISHER ELSE WRITER

should_continue(st) ==
    IF Get(st, "continue_revision", FALSE) THEN WRITER ELSE PUBLISHER

\* the input of app.ainvoke
initial_state(customer_message) ==
    [k \in {"messages", "original_customer_message", "revision_count",
            "latest_feedback_for_writer", "latest_message_response_by_writer",
            "latest_reviewer_decision", "continue_revision"} |->
       CASE k = "messages" -> <<HumanMessage(<<customer_message>>, "None")>>
         [] k = "original_customer_message" -> customer_message
         [] k = "revision_count" -> 0
         [] k = "latest_feedback_for_writer" -> ""
         [] k = "latest_message_response_by_writer" -> ""
         [] k = "latest_reviewer_decision" -> REVISE
         [] k = "continue_revision" -> TRUE]

\* the reducer of the messages channel of MessagesState: a message whose
\* id is already stored replaces the stored one in place, any other message
\* is appended, with a fresh id when it has none
add_messages(left, right) ==
    LET stored(m) == m.id # 0 /\ \E i \in DOMAIN left : left[i].id = m.id
        replaced == [i \in DOMAIN left |->
                       IF \E j \in DOMAIN right : right[j].id = left[i].id
                       THEN right[CHOOSE j \in DOMAIN right :
                                     /\ right[j].id = left[i].id
                                     /\ \A h \in DOMAIN right :
                                           right[h].id = left[i].id => h <= j]
                       ELSE left[i]]
        fresh == SelectSeq(right, LAMBDA m : ~stored(m))
    IN  replaced \o
        [i \in DOMAIN fresh |->
           [fresh[i] EXCEPT !.id = IF fresh[i].id = 0 THEN Len(left) + i
                                   ELSE fresh[i].id]]

\* variant: the messages key is overwritten like every other key
ApplyUpdate_overwrite(st, update) ==
    [k \in (DOMAIN st) \cup (DOMAIN update) |->
        IF k \notin DOMAIN update THEN st[k] ELSE update[k]]

\* how the graph folds a node's return value into its state: the messages
\* channel goes through its reducer, every other key is overwritten
ApplyUpdate(st, update) ==
    [k \in (DOMAIN st) \cup (DOMAIN update) |->
        IF k \notin DOMAIN update THEN st[k]
        ELSE IF k = "messages"
             THEN add_messages(Get(st, "messages", <<>>), update[k])
        ELSE update[k]]

----------------------------------------------------------------------------
(* One run of process_customer_message *)

Init ==
    /\ MAX_REVISIONS \in 0..MaxCap
    /\ pc = START
    /\ state = [k \in {} |-> 0]
    /\ llm_calls = <<>>
    /\ trace = <<>>
    /\ verdicts = <<>>
    /\ results = <<>>

\* process_customer_message up to the START -> writer_node edge
Invoke ==
    /\ pc = START
    /\ \E customer_message \in CustomerMessages :
          state' = ApplyUpdate(state, initial_state(customer_message))
    /\ pc' = WRITER
    /\ UNCHANGED <<MAX_REVISIONS, llm_calls, trace, verdicts, results>>

\* writer_node, then the writer_node -> reviewer_node edge
WriterStep ==
    /\ pc = WRITER
    /\ \E response_content \in Drafts :
          LET r == writer_node(state, response_content)
          IN  /\ state' = ApplyUpdate(state, r.ret)
              /\ llm_calls' = llm_calls \o r.calls
    /\ trace' = Append(trace, WRITER)
    /\ pc' = REVIEWER
    /\ UNCHANGED <<MAX_REVISIONS, verdicts, results>>

\* reviewer_node, then the conditional edge should_continue
ReviewerStep ==
    /\ pc = REVIEWER
    /\ \E feedback_text \in Feedbacks, reviewer_response \in ReviewerResponses :
          LET r == reviewer_node(state, feedback_text, reviewer_response)
          IN  /\ state' = ApplyUpdate(state, r.ret)
              /\ llm_calls' = llm_calls \o r.calls
              /\ verdicts' = IF r.calls = <<>> THEN verdicts
                             ELSE Append(verdicts, reviewer_response)
    /\ trace' = Append(trace, REVIEWER)
    /\ pc' = should_continue(state')
    /\ UNCHANGED <<MAX_REVISIONS, results>>

\* publisher_node, then the publisher_node -> END edge
PublisherStep ==
    /\ pc = PUBLISHER
    /\ state' = ApplyUpdate(state, publisher_node(state))
    /\ trace' = Append(trace, PUBLISHER)
    /\ pc' = END
    /\ UNCHANGED <<MAX_REVISIONS, llm_calls, verdicts, results>>

Next == Invoke \/ WriterStep \/ ReviewerStep \/ PublisherStep

Spec == Init /\ [][Next]_vars

\* ainvoke drives the graph until END: a node that can run does run
FairSpec == Spec /\ WF_vars(Next)

----------------------------------------------------------------------------
(* Direct calls of the pure functions on arbitrary dicts, as tests.py makes *)
(* them: any key but "messages" may be missing.                             *)

OptionalKeys == {"continue_revision", "latest_reviewer_decision", "revision_count"}

UnitState(cr, d, rc, K) ==
    [k \in K \cup {"messages", "original_customer_message"} |->
       CASE k = "continue_revision" -> cr
         [] k = "latest_reviewer_decision" -> d
         [] k = "revision_count" -> rc
         [] k = "messages" -> <<>>
         [] k = "original_customer_message" -> "Original"]

UnitStates ==
    { UnitState(cr, d, rc, K) :
        cr \in BOOLEAN, d \in {APPROVE, REVISE}, rc \in 0..(MaxCap + 1),
        K \in SUBSET OptionalKeys }

InitUnit ==
    /\ MAX_REVISIONS \in 0..MaxCap
    /\ pc = "unit"
    /\ state \in UnitStates
    /\ llm_calls = <<>>
    /\ trace = <<>>
    /\ verdicts = <<>>
    /\ results = <<>>

\* should_continue(state), called up to twice on the same dict
CallShouldContinue ==
    /\ pc = "unit"
    /\ Len(results) < 2
    /\ results' = Append(results, should_continue(state))
    /\ UNCHANGED <<MAX_REVISIONS, pc, state, llm_calls, trace, verdicts>>

NextUnit == CallShouldContinue

SpecUnit == InitUnit /\ [][NextUnit]_vars

----------------------------------------------------------------------------
(* Observations used by the properties *)

Has(key) == key \in DOMAIN state

RevisionCount == Get(state, "revision_count", 0)

Approved == Has("latest_reviewer_decision") /\ state["latest_reviewer_decision"] = APPROVE

ContinueFalse == Has("continue_revision") /\ state["continue_revision"] = FALSE

Executions(node) == Cardinality({i \in DOMAIN trace : trace[i] = node})

LastNode == IF trace = <<>> THEN START ELSE trace[Len(trace)]

Terminal == pc = END

IsVerdict(v, d) == "decision" \in DOMAIN v /\ v["decision"] = d

\* some entry of the log, from position from on, contains the text
LogContains(log, from, text) ==
    \E i \in DOMAIN log :
        /\ i >= from
        /\ \E j \in DOMAIN log[i].content : log[i].content[j] = text

----------------------------------------------------------------------------
(* Properties *)

\* C1 (FairSpec): every run eventually executes publisher_node and reaches
\* END, whatever MAX_REVISIONS >= 0 and whatever the reviews return.
C1_Termination == <>(pc = END /\ LastNode = PUBLISHER)

C1_Witness == pc = END /\ LastNode = PUBLISHER /\ Executions(WRITER) = 3

\* C2: in every terminal state 0 < revision_count <= MAX_REVISIONS + 1.
C2_TerminalCountBounds ==
    Terminal => (0 < RevisionCount /\ RevisionCount <= MAX_REVISIONS + 1)

C2_Witness == Terminal /\ RevisionCount = MAX_REVISIONS + 1

\* C3 as stated: the number of writer_node executions of a run never
\* exceeds MAX_REVISIONS, MAX_REVISIONS = 0 included.
C3_WriterExecutionsAtMostCap == Executions(WRITER) <= MAX_REVISIONS

\* C3 amended: the number of writer_node executions of a run never exceeds
\* MAX_REVISIONS when MAX_REVISIONS >= 1, and never exceeds 1 when
\* MAX_REVISIONS = 0 (the START edge always runs writer_node once).
C3_WriterExecutionsAtMostCapOrOne ==
    Executions(WRITER) <= (IF MAX_REVISIONS = 0 THEN 1 ELSE MAX_REVISIONS)

C3_Witness == Terminal /\ MAX_REVISIONS = 0 /\ Executions(WRITER) = 1

\* C4 (SpecUnit): should_continue returns writer_node iff the dict has
\* continue_revision = true and publisher_node when it is false or missing,
\* whatever the other keys hold, and a second call on the same dict returns
\* the same value.
C4_RouteDependsOnFlagOnly ==
    pc = "unit" =>
        /\ \A i \in DOMAIN results :
              results[i] = (IF Has("continue_revision") /\ state["continue_revision"]
                            THEN WRITER ELSE PUBLISHER)
        /\ (Len(results) = 2 => results[1] = results[2])

C4_Witness ==
    /\ pc = "unit"
    /\ Len(results) = 2
    /\ ~Has("continue_revision")
    /\ results[2] = PUBLISHER

\* C5: a reviewer_node execution entered with revision_count >=
\* MAX_REVISIONS sets the decision to APPROVE and continue_revision to
\* false, appends a log entry containing MAX_REVISIONS_MESSAGE and makes no
\* model call at all.
C5_CapCheck ==
    [][ (pc = REVIEWER /\ RevisionCount >= MAX_REVISIONS) =>
          /\ state'["latest_reviewer_decision"] = APPROVE
          /\ state'["continue_revision"] = FALSE
          /\ Len(state'["messages"]) > Len(state["messages"])
          /\ LogContains(state'["messages"], Len(state["messages"]) + 1,
                         MAX_REVISIONS_MESSAGE)
          /\ llm_calls' = llm_calls ]_vars

C5_Witness ==
    /\ LastNode = REVIEWER
    /\ RevisionCount >= MAX_REVISIONS
    /\ MAX_REVISIONS >= 2
    /\ Len(verdicts) < Executions(REVIEWER)

\* C6: revision_count never decreases; writer_node adds exactly 1 to it,
\* reviewer_node (both paths) and publisher_node leave it unchanged.
C6_CountMonotone ==
    [][ /\ Get(state', "revision_count", 0) >= RevisionCount
        /\ (pc = WRITER => Get(state', "revision_count", 0) = RevisionCount + 1)
        /\ (pc \in {REVIEWER, PUBLISHER} =>
                Get(state', "revision_count", 0) = RevisionCount) ]_vars

C6_Witness == Terminal /\ RevisionCount = 2 /\ Executions(REVIEWER) = 2

\* C7: in every state of a run, decision = APPROVE implies
\* continue_revision = false.
C7_ApproveImpliesStop == Approved => ContinueFalse

C7_Witness ==
    /\ Approved
    /\ verdicts # <<>>
    /\ IsVerdict(verdicts[Len(verdicts)], APPROVE)
    /\ RevisionCount < MAX_REVISIONS

\* C8: once continue_revision is false it stays false for the rest of the
\* run and writer_node is not executed again.
C8_StopIsFinal ==
    [][ ContinueFalse =>
          /\ Has("continue_revision")' /\ state'["continue_revision"] = FALSE
          /\ pc' # WRITER
          /\ Executions(WRITER)' = Executions(WRITER) ]_vars

C8_Witness == Terminal /\ ContinueFalse /\ RevisionCount < MAX_REVISIONS

\* C9: with MAX_REVISIONS >= 1 and REVISE returned to every normal review,
\* the run ends with revision_count = MAX_REVISIONS (no further writer_node
\* execution), decision APPROVE forced by the cap path, continue_revision
\* false and MAX_REVISIONS_MESSAGE in the log.
C9_AlwaysRevise ==
    (Terminal /\ MAX_REVISIONS >= 1
       /\ \A i \in DOMAIN verdicts : IsVerdict(verdicts[i], REVISE)) =>
        /\ RevisionCount = MAX_REVISIONS
        /\ Executions(WRITER) = MAX_REVISIONS
        /\ Approved
        /\ ContinueFalse
        /\ Len(verdicts) = Executions(REVIEWER) - 1
        /\ LogContains(state["messages"], 1, MAX_REVISIONS_MESSAGE)

C9_Witness ==
    /\ Terminal
    /\ MAX_REVISIONS = 3
    /\ Len(verdicts) = 2
    /\ \A i \in DOMAIN verdicts : IsVerdict(verdicts[i], REVISE)
    /\ RevisionCount = 3

\* C10: if the k-th normal review is the first one to be answered APPROVE,
\* the run ends with revision_count = k, exactly k writer_node executions,
\* decision APPROVE and continue_revision false; k = 1 is exactly one
\* writer_node execution.
C10_FirstApproveEndsRun ==
    \A k \in DOMAIN verdicts :
        (/\ Terminal
         /\ IsVerdict(verdicts[k], APPROVE)
         /\ \A j \in 1..(k - 1) : ~IsVerdict(verdicts[j], APPROVE)) =>
            /\ RevisionCount = k
            /\ Executions(WRITER) = k
            /\ Approved
            /\ ContinueFalse

C10_Witness ==
    /\ Terminal
    /\ Len(verdicts) = 2
    /\ IsVerdict(verdicts[1], REVISE)
    /\ IsVerdict(verdicts[2], APPROVE)
    /\ RevisionCount = 2

----------------------------------------------------------------------------
(* Runs in which a model call may raise, and later calls of                *)
(* process_customer_message for the same thread_id with a checkpointer.    *)
(* The checkpoint of the thread is the pair of state and the node that was *)
(* to run; pc keeps that node inside the "raised in ..." value.            *)

RaisedIn(node) == "raised in " \o node

RaisedPcs == {RaisedIn(WRITER), RaisedIn(REVIEWER)}

\* the node the checkpoint names as next
PendingNode == IF pc = RaisedIn(WRITER) THEN WRITER
               ELSE IF pc = RaisedIn(REVIEWER) THEN REVIEWER
               ELSE pc

\* number of process_customer_message calls the log shows: each one puts
\* its unnamed HumanMessage into the messages channel
Invocations ==
    Cardinality({i \in DOMAIN Get(state, "messages", <<>>) :
                    /\ state["messages"][i].type = "human"
                    /\ state["messages"][i].name = "None"})

\* the values the model calls return in these longer runs
ResumeDrafts == {"draft_a"}
ResumeFeedbacks == {"fb_a"}
ResumeResponses == { [k \in {"decision"} |-> v] : v \in {APPROVE, REVISE} }

\* WriterStep over the drafts given
WriterStepOn(drafts) ==
    /\ pc = WRITER
    /\ \E response_content \in drafts :
          LET r == writer_node(state, response_content)
          IN  /\ state' = ApplyUpdate(state, r.ret)
              /\ llm_calls' = llm_calls \o r.calls
    /\ trace' = Append(trace, WRITER)
    /\ pc' = REVIEWER
    /\ UNCHANGED <<MAX_REVISIONS, verdicts, results>>

\* ReviewerStep over the feedback texts and structured outputs given
ReviewerStepOn(feedbacks, responses) ==
    /\ pc = REVIEWER
    /\ \E feedback_text \in feedbacks, reviewer_response \in responses :
          LET r == reviewer_node(state, feedback_text, reviewer_response)
          IN  /\ state' = ApplyUpdate(state, r.ret)
              /\ llm_calls' = llm_calls \o r.calls
              /\ verdicts' = IF r.calls = <<>> THEN verdicts
                             ELSE Append(verdicts, reviewer_response)
    /\ trace' = Append(trace, REVIEWER)
    /\ pc' = should_continue(state')
    /\ UNCHANGED <<MAX_REVISIONS, results>>

ResumeWriterStep == WriterStepOn(ResumeDrafts)

ResumeReviewerStep == ReviewerStepOn(ResumeFeedbacks, ResumeResponses)

\* llm.invoke raises inside writer_node; ainvoke re-raises to the caller
WriterRaises ==
    /\ pc = WRITER
    /\ LET r == writer_node_raises(state)
       IN  /\ state' = ApplyUpdate(state, r.ret)
           /\ llm_calls' = llm_calls \o r.calls
    /\ pc' = RaisedIn(WRITER)
    /\ UNCHANGED <<MAX_REVISIONS, trace, verdicts, results>>

\* a model call raises inside reviewer_node (normal path only: the cap path
\* makes no call); ainvoke re-raises to the caller
ReviewerRaises ==
    /\ pc = REVIEWER
    /\ ~max_revisions_reached(Get(state, "revision_count", 0))
    /\ \E stage \in {"invoke", "structured"}, feedback_text \in ResumeFeedbacks :
          LET r == reviewer_node_raises(state, stage, feedback_text)
          IN  /\ state' = ApplyUpdate(state, r.ret)
              /\ llm_calls' = llm_calls \o r.calls
    /\ pc' = RaisedIn(REVIEWER)
    /\ UNCHANGED <<MAX_REVISIONS, trace, verdicts, results>>

\* process_customer_message called again for the thread after a run that
\* raised: app.ainvoke receives a fresh initial_state, which the graph
\* folds into the checkpointed state before it takes the START edge
Reinvoke ==
    /\ pc \in RaisedPcs
    /\ Invocations < MaxInvocations
    /\ \E customer_message \in CustomerMessages :
          state' = ApplyUpdate(state, initial_state(customer_message))
    /\ pc' = WRITER
    /\ UNCHANGED <<MAX_REVISIONS, llm_calls, trace, verdicts, results>>

NextResume ==
    \/ Invoke
    \/ ResumeWriterStep
    \/ ResumeReviewerStep
    \/ PublisherStep
    \/ WriterRaises
    \/ ReviewerRaises
    \/ Reinvoke

SpecResume == Init /\ [][NextResume]_vars

----------------------------------------------------------------------------
(* Properties, continued *)

\* C11 as stated: a normal review whose structured output is neither
\* APPROVE nor REVISE (or has no decision) is treated as REVISE: it leaves
\* continue_revision true and the run goes back to writer_node.
C11_UnrecognisedMeansRevise ==
    [][ (/\ pc = REVIEWER
         /\ verdicts' # verdicts
         /\ ~IsVerdict(verdicts'[Len(verdicts')], APPROVE)
         /\ ~IsVerdict(verdicts'[Len(verdicts')], REVISE)) =>
           /\ state'["continue_revision"] = TRUE
           /\ pc' = WRITER ]_vars

\* C12 as stated: with an empty original message no node executes and no
\* model call is made.
C12_EmptyMessageRejected ==
    (Has("original_customer_message") /\ state["original_customer_message"] = "") =>
        /\ trace = <<>>
        /\ llm_calls = <<>>
        /\ pc \notin {REVIEWER, PUBLISHER, END}

\* C13 as stated (SpecResume): a call for a thread whose checkpoint was
\* saved mid-loop re-enters at the node the checkpoint names as next, with
\* the saved revision_count.
C13_ResumesAtPendingNode ==
    [][ (pc \in RaisedPcs /\ pc' \notin RaisedPcs) =>
           /\ pc' = PendingNode
           /\ Get(state', "revision_count", 0) = RevisionCount ]_vars

\* C14 (SpecResume): when a model call raises inside writer_node or
\* reviewer_node, the state stays exactly as the last completed node left
\* it, the node is not run again and no other node runs: the run is over
\* and only a new call of the caller can follow.
C14_FailurePropagates ==
    [][ /\ (pc \notin RaisedPcs /\ pc' \in RaisedPcs) =>
              /\ pc \in {WRITER, REVIEWER}
              /\ pc' = RaisedIn(pc)
              /\ state' = state
              /\ trace' = trace
        /\ (pc \in RaisedPcs) =>
              /\ trace' = trace
              /\ llm_calls' = llm_calls
              /\ pc' \in {pc, WRITER}
              /\ (pc' = WRITER => Invocations' = Invocations + 1) ]_vars

C14_Witness ==
    /\ pc = RaisedIn(REVIEWER)
    /\ RevisionCount = 2
    /\ Len(llm_calls) > Len(trace) + Len(verdicts)

----------------------------------------------------------------------------
(* The nodes executed on arbitrary channel states, as tests.py calls them   *)
(* (keys may be missing, any counter, any decision), next to whole runs.    *)

NodeOptionalKeys == {"continue_revision", "latest_reviewer_decision",
                     "revision_count", "latest_feedback_for_writer"}

\* the logs of the input states: empty, or two stored entries
NodeInputLogs ==
    { <<>>,
      << [HumanMessage(<<"Original">>, "None") EXCEPT !.id = 1],
         [AIMessage(<<"Some reply">>, WRITER) EXCEPT !.id = 2] >> }

NodeInput(cr, d, rc, fb, log, K) ==
    [k \in K \cup {"messages", "original_customer_message",
                   "latest_message_response_by_writer"} |->
       CASE k = "continue_revision" -> cr
         [] k = "latest_reviewer_decision" -> d
         [] k = "revision_count" -> rc
         [] k = "latest_feedback_for_writer" -> fb
         [] k = "messages" -> log
         [] k = "original_customer_message" -> "Original"
         [] k = "latest_message_response_by_writer" -> "Some reply"]

NodeInputs ==
    { NodeInput(cr, d, rc, fb, log, K) :
        cr \in BOOLEAN, d \in {APPROVE, REVISE}, rc \in 0..(MaxCap + 1),
        fb \in {"", "fb_a"}, log \in NodeInputLogs,
        K \in SUBSET NodeOptionalKeys }

InitNodes ==
    /\ MAX_REVISIONS \in 0..MaxCap
    /\ pc = "unit"
    /\ state \in NodeInputs
    /\ llm_calls = <<>>
    /\ trace = <<>>
    /\ verdicts = <<>>
    /\ results = <<>>

\* writer_node(state); results keeps what the node returned
CallWriterNode ==
    /\ pc = "unit"
    /\ \E response_content \in Drafts :
          LET r == writer_node(state, response_content)
          IN  /\ state' = ApplyUpdate(state, r.ret)
              /\ llm_calls' = llm_calls \o r.calls
              /\ results' = <<[fn |-> WRITER, arg |-> state, ret |-> r.ret,
                               response_content |-> response_content]>>
    /\ trace' = Append(trace, WRITER)
    /\ pc' = "returned"
    /\ UNCHANGED <<MAX_REVISIONS, verdicts>>

\* reviewer_node(state)
CallReviewerNode ==
    /\ pc = "unit"
    /\ \E feedback_text \in Feedbacks, reviewer_response \in ReviewerResponses :
          LET r == reviewer_node(state, feedback_text, reviewer_response)
          IN  /\ state' = ApplyUpdate(state, r.ret)
              /\ llm_calls' = llm_calls \o r.calls
              /\ verdicts' = IF r.calls = <<>> THEN verdicts
                             ELSE Append(verdicts, reviewer_response)
              /\ results' = <<[fn |-> REVIEWER, arg |-> state, ret |-> r.ret]>>
    /\ trace' = Append(trace, REVIEWER)
    /\ pc' = "returned"
    /\ UNCHANGED <<MAX_REVISIONS>>

\* publisher_node(state)
CallPublisherNode ==
    /\ pc = "unit"
    /\ state' = ApplyUpdate(state, publisher_node(state))
    /\ results' = <<[fn |-> PUBLISHER, arg |-> state,
                     ret |-> publisher_node(state)]>>
    /\ trace' = Append(trace, PUBLISHER)
    /\ pc' = "returned"
    /\ UNCHANGED <<MAX_REVISIONS, llm_calls, verdicts>>

NextNodes == CallWriterNode \/ CallReviewerNode \/ CallPublisherNode

SpecNodes == (Init \/ InitNodes) /\ [][Next \/ NextNodes]_vars

\* the step executes the node: it is the one the step adds to trace
Ran(node) == trace' = Append(trace, node)

\* the keys a step leaves alone: present before iff present after, and equal
Kept(keys) ==
    \A k \in keys : /\ (k \in DOMAIN state) <=> (k \in DOMAIN state')
                    /\ k \in DOMAIN state => state'[k] = state[k]

AllKeys == {"messages", "original_customer_message", "revision_count",
            "latest_feedback_for_writer", "latest_message_response_by_writer",
            "latest_reviewer_decision", "continue_revision"}

----------------------------------------------------------------------------
(* Properties, continued *)

\* C15 (SpecNodes): publisher_node is the identity: after it ran, message,
\* draft, feedback, decision, revision_count, continue_revision and the log
\* are what they were (no entry added, removed or duplicated), the value it
\* returns is its input, and no model call was made.
C15_PublisherIdentity ==
    [][ Ran(PUBLISHER) =>
          /\ state' = state
          /\ Kept(AllKeys)
          /\ llm_calls' = llm_calls
          /\ (pc = "unit" => results'[1].ret = state) ]_vars

C15_Witness ==
    /\ pc = END
    /\ LastNode = PUBLISHER
    /\ Len(state["messages"]) = 1 + 4 * 2

\* C16 (SpecNodes): after a normal review continue_revision =
\* (decision = REVISE and revision_count on entry < MAX_REVISIONS); an
\* APPROVE verdict gives continue_revision = false, also when the input has
\* no continue_revision or decision key.
C16_ContinueFormula ==
    [][ (Ran(REVIEWER) /\ llm_calls' # llm_calls) =>
          /\ state'["continue_revision"] =
                (state'["latest_reviewer_decision"] = REVISE
                   /\ RevisionCount < MAX_REVISIONS)
          /\ state'["latest_reviewer_decision"] =
                Get(verdicts'[Len(verdicts')], "decision", REVISE)
          /\ (IsVerdict(verdicts'[Len(verdicts')], APPROVE) =>
                state'["continue_revision"] = FALSE) ]_vars

C16_Witness ==
    /\ pc = "returned"
    /\ LastNode = REVIEWER
    /\ verdicts # <<>> /\ IsVerdict(verdicts[1], APPROVE)
    /\ "continue_revision" \notin DOMAIN results[1].arg
    /\ "latest_reviewer_decision" \notin DOMAIN results[1].arg
    /\ state["continue_revision"] = FALSE
    /\ RevisionCount = 0
    /\ ~Has("revision_count")

\* C17 (SpecNodes): a writer_node execution makes exactly one model call,
\* sets the draft to the generated text, appends exactly one log entry, named
\* writer_node, whose content is that text, and leaves the original message,
\* the feedback, the decision and continue_revision as they were.
C17_WriterEffect ==
    [][ Ran(WRITER) =>
          /\ Len(llm_calls') = Len(llm_calls) + 1
          /\ llm_calls'[Len(llm_calls')].node = WRITER
          /\ llm_calls'[Len(llm_calls')].kind = "invoke"
          /\ state'["latest_message_response_by_writer"] \in Drafts
          /\ (pc = "unit" => state'["latest_message_response_by_writer"]
                               = results'[1].response_content)
          /\ Len(state'["messages"]) = Len(state["messages"]) + 1
          /\ SubSeq(state'["messages"], 1, Len(state["messages"])) = state["messages"]
          /\ LET entry == state'["messages"][Len(state'["messages"])]
             IN  /\ entry.name = WRITER
                 /\ entry.content = <<state'["latest_message_response_by_writer"]>>
          /\ Kept({"original_customer_message", "latest_feedback_for_writer",
                   "latest_reviewer_decision", "continue_revision"}) ]_vars

C17_Witness ==
    /\ LastNode = WRITER
    /\ pc = REVIEWER
    /\ RevisionCount = 2
    /\ state["latest_message_response_by_writer"] = "draft_b"
    /\ state["latest_feedback_for_writer"] = "fb_a"

\* the feedback texts a request carries as a revision directive
FeedbackIn(request) ==
    { request[i].content[2] :
        i \in {j \in DOMAIN request : request[j].content[1] = "Reviewer Feedback:"} }

\* the feedback text handed to the structured-output call
CritiqueOf(call) == call.messages[1].content[2]

\* C18 (SpecNodes): the request of writer_node carries the reviewer feedback
\* only when revision_count > 0 and the decision is REVISE on entry; with
\* revision_count = 0 it never does, even when latest_feedback_for_writer is
\* not empty; on every later writer_node execution of a run the feedback
\* carried is the text of the review just before it (an empty text is not
\* carried).
C18_FeedbackInRequest ==
    [][ Ran(WRITER) =>
          LET carried == FeedbackIn(llm_calls'[Len(llm_calls')].messages)
          IN  /\ carried # {} =>
                    /\ RevisionCount > 0
                    /\ Has("latest_reviewer_decision")
                    /\ state["latest_reviewer_decision"] = REVISE
              /\ RevisionCount = 0 => carried = {}
              /\ (pc = WRITER /\ Executions(WRITER) >= 1) =>
                    /\ llm_calls[Len(llm_calls)].kind = "structured"
                    /\ carried = {CritiqueOf(llm_calls[Len(llm_calls)])} \ {""}
                    /\ state["latest_feedback_for_writer"]
                          = CritiqueOf(llm_calls[Len(llm_calls)]) ]_vars

C18_Witness ==
    /\ pc = "returned"
    /\ LastNode = WRITER
    /\ Get(results[1].arg, "revision_count", 1) = 0
    /\ Get(results[1].arg, "latest_feedback_for_writer", "") = "fb_a"
    /\ Get(results[1].arg, "latest_reviewer_decision", APPROVE) = REVISE
    /\ FeedbackIn(llm_calls[1].messages) = {}

\* C19 (SpecNodes): the log only grows at its end: every step leaves the
\* stored entries as they were, and the entries a node execution appends
\* carry the name of that node, writer_node or reviewer_node.
C19_AppendOnlyLog ==
    [][ LET old == Get(state, "messages", <<>>)
            new == Get(state', "messages", <<>>)
        IN  /\ Len(new) >= Len(old)
            /\ SubSeq(new, 1, Len(old)) = old
            /\ \A node \in {WRITER, REVIEWER, PUBLISHER} :
                  Ran(node) =>
                     \A i \in (Len(old) + 1)..Len(new) :
                        /\ new[i].name = node
                        /\ node \in {WRITER, REVIEWER} ]_vars

C19_Witness ==
    /\ pc = END
    /\ Len(state["messages"]) = 9
    /\ state["messages"][2].name = WRITER
    /\ state["messages"][3].name = REVIEWER
    /\ state["messages"][9].name = REVIEWER

\* C20 as stated: the feedback is empty until the first review, and after
\* every reviewer_node execution, the cap path included, it holds the
\* critique that execution produced.
C20_FeedbackFromEveryReview ==
    [][ /\ (Executions(REVIEWER) = 0 /\ Has("latest_feedback_for_writer")) =>
              state["latest_feedback_for_writer"] = ""
        /\ Ran(REVIEWER) =>
              /\ llm_calls' # llm_calls
              /\ state'["latest_feedback_for_writer"]
                    = CritiqueOf(llm_calls'[Len(llm_calls')]) ]_vars

\* C20 amended: the feedback is empty until the first review; a
\* reviewer_node execution on the normal path overwrites it with the
\* critique it produced, and one on the cap path leaves it as it was (the
\* critique of an earlier draft, or empty).
C20_FeedbackFromNormalReview ==
    [][ /\ (Executions(REVIEWER) = 0 /\ Has("latest_feedback_for_writer")) =>
              state["latest_feedback_for_writer"] = ""
        /\ (Ran(REVIEWER) /\ llm_calls' # llm_calls) =>
              state'["latest_feedback_for_writer"]
                 = CritiqueOf(llm_calls'[Len(llm_calls')])
        /\ (Ran(REVIEWER) /\ llm_calls' = llm_calls) =>
              /\ RevisionCount >= MAX_REVISIONS
              /\ Kept({"latest_feedback_for_writer"}) ]_vars

C20_Witness ==
    /\ LastNode = REVIEWER
    /\ Len(verdicts) = 1
    /\ Executions(REVIEWER) = 2
    /\ state["latest_feedback_for_writer"] = "fb_a"

\* C21: in every run the first node executed is writer_node, writer_node
\* is always followed at once by reviewer_node, reviewer_node by writer_node
\* or publisher_node, publisher_node by nothing but END, where it has run
\* exactly once; one node at a time: the node to run next is the single
\* successor the last executed node allows.
C21_NodeOrder ==
    /\ trace # <<>> => trace[1] = WRITER
    /\ \A i \in 1..(Len(trace) - 1) :
          /\ trace[i] = WRITER => trace[i + 1] = REVIEWER
          /\ trace[i] = REVIEWER => trace[i + 1] \in {WRITER, PUBLISHER}
          /\ trace[i] # PUBLISHER
    /\ LastNode = START => pc \in {START, WRITER}
    /\ LastNode = WRITER => pc = REVIEWER
    /\ LastNode = REVIEWER => pc \in {WRITER, PUBLISHER}
    /\ LastNode = PUBLISHER => pc = END
    /\ pc = END => (LastNode = PUBLISHER /\ Executions(PUBLISHER) = 1)

C21_Witness ==
    /\ pc = END
    /\ trace = <<WRITER, REVIEWER, WRITER, REVIEWER, PUBLISHER>>

\* C22: a run whose structured outputs are all APPROVE or REVISE ends with
\* continue_revision false and decision APPROVE, by a normal review or by
\* the cap path.
C22_EndsApproved ==
    (Terminal /\ \A i \in DOMAIN verdicts :
                    IsVerdict(verdicts[i], APPROVE) \/ IsVerdict(verdicts[i], REVISE)) =>
        (ContinueFalse /\ Approved)

C22_Witness ==
    /\ Terminal
    /\ Approved
    /\ verdicts # <<>>
    /\ IsVerdict(verdicts[Len(verdicts)], REVISE)
    /\ Len(verdicts) < Executions(REVIEWER)

\* C23: every reviewer_node execution appends exactly three entries named
\* reviewer_node (feedback or cap message, decision, continue flag), on the
\* cap path and on the normal path; a finished run has executed
\* reviewer_node as often as writer_node and its log has
\* 1 + 4 * revision_count entries.
C23_LogAccounting ==
    [][ /\ Ran(REVIEWER) =>
              LET old == state["messages"]
                  new == state'["messages"]
              IN  /\ Len(new) = Len(old) + 3
                  /\ \A i \in 1..3 : new[Len(old) + i].name = REVIEWER
                  /\ \/ new[Len(old) + 1].content = <<MAX_REVISIONS_MESSAGE>>
                     \/ /\ Len(new[Len(old) + 1].content) = 3
                        /\ new[Len(old) + 1].content[2] = " - feedback for writer: "
                  /\ new[Len(old) + 2].content[2]
                        \in {" reviewer decision: ", " - reviewer decision: "}
                  /\ new[Len(old) + 3].content[2]
                        \in {" continue revision?: ", " - continue revision?: "}
        /\ pc' = END =>
              /\ Executions(REVIEWER)' = Executions(WRITER)'
              /\ Len(state'["messages"]) = 1 + 4 * state'["revision_count"] ]_vars

C23_Witness ==
    /\ pc = END
    /\ RevisionCount = 3
    /\ Len(state["messages"]) = 13
    /\ Len(verdicts) = 2

\* ---- writer_node under a collecting stream writer ----

\* the custom events one writer_node execution hands to the stream writer:
\* the body of writer_node never calls get_stream_writer, so there are none
writer_node_custom_events(st, response_content) == <<>>

\* writer_node(state) with get_stream_writer replaced by a stub that
\* collects what is emitted; results keeps the return value and the events
CallWriterNodeStreamed ==
    /\ pc = "unit"
    /\ \E response_content \in Drafts :
          LET r == writer_node(state, response_content)
          IN  /\ state' = ApplyUpdate(state, r.ret)
              /\ llm_calls' = llm_calls \o r.calls
              /\ results' = <<[fn |-> WRITER, arg |-> state, ret |-> r.ret,
                               response_content |-> response_content,
                               emitted |-> writer_node_custom_events(state, response_content)]>>
    /\ trace' = Append(trace, WRITER)
    /\ pc' = "returned"
    /\ UNCHANGED <<MAX_REVISIONS, verdicts>>

SpecStream == InitNodes /\ [][CallWriterNodeStreamed]_vars

\* C24: every writer_node execution emits at least one custom event through
\* the stream writer, besides updating the state.
C24_WriterEmitsEvent ==
    (pc = "returned" /\ results # <<>> /\ results[1].fn = WRITER) =>
        /\ results[1].emitted # <<>>
        /\ "latest_message_response_by_writer" \in DOMAIN state

====
